---- MODULE Spec2Model ----
(***************************************************************************)
(* Model of src/src/06-objects-tasks.js: the cssSelectorBuilder facade.    *)
(*                                                                         *)
(* A string is modelled as the sequence of its characters (a value such as *)
(* 'a' is the one-character string <<"a">>), so that concatenation, the    *)
(* prefixes '#', '.', '[', ']', ':', '::' and Array.prototype.join('')     *)
(* are computed and not assumed.  The token "undefined" stands for the     *)
(* nine characters a template literal renders for the value undefined.    *)
(*                                                                         *)
(* Every facade method returns `this`, so every selector handed to         *)
(* combine is the facade object itself: there is one builder state.        *)
(***************************************************************************)
EXTENDS Integers, Sequences, FiniteSets, TLC

\* Bound of the model: number of calls made since the builder was last empty.
MaxCalls == 4

\* Bounds of the model: simple selectors of a nested combination, and fragments
\* of each of them.
MaxSelectors == 3
MaxFragments == 3

\* Bound of the model: calls chained after a combine call.
MaxChained == 2

\* Bound of the model: largest absolute value of a Rectangle dimension.
MaxDim == 4

\* Bound of the model: largest number of items of an array handed to getJSON.
MaxItems == 2

\* Argument values of the fragment methods (one-character strings).
Values == {<<"a">>, <<"b">>}

\* Combinator tokens handed to combine.
Combinators == {"+", " "}

VARIABLES
    idCheck,             \* cssSelectorBuilder.idCheck
    pseudoElementCheck,  \* cssSelectorBuilder.pseudoElementCheck
    order,               \* cssSelectorBuilder.order : ranks pushed by inOrder
    combo,               \* cssSelectorBuilder.combo : pending segments
    build,               \* cssSelectorBuilder.build : fragment strings
    op,                  \* name of the last method called
    thrown,              \* message of the Error the last call threw, or NoError
    result,              \* value the last call returned: stringify's string, or the builder
    pre,                 \* builder state, call log and outcome just before the last call
    trace,               \* calls that returned normally since the builder was last empty
    rect,                \* the object made by new Rectangle(w, h), with the arguments given
    area,                \* the value returned by the last getArea() and the object before it
    jsonValue,           \* the value last handed to getJSON
    json,                \* the string getJSON returned for it
    revived              \* the object fromJSON returned for that string

\* The variables of the selector builder and those of the other exported functions.
builderVars == <<idCheck, pseudoElementCheck, order, combo, build, op, thrown, result, pre, trace>>
objectVars == <<rect, area, jsonValue, json, revived>>

vars == <<builderVars, objectVars>>

\* Outcome of a call that returned normally.
NoError == "none"

----------------------------------------------------------------------------
\* Dimensions handed to the Rectangle constructor.
Dims == (0 - MaxDim)..MaxDim

\* function Rectangle(width, height): the fields of the constructed object.
Rectangle(width, height) == [width |-> width, height |-> height]

\* Variant of getArea: adds the fields.
getAreaSum(obj) == [obj |-> obj, ret |-> obj.width + obj.height]

\* Rectangle.prototype.getArea: the object afterwards and the value returned.
getArea(obj) == [obj |-> obj, ret |-> obj.width * obj.height]

----------------------------------------------------------------------------
\* JSON values: a tag t and, per tag, the number n, the characters s, the
\* boolean b, the array items or the object fields (key k, value v) in
\* insertion order.
JNum(n) == [t |-> "num", n |-> n]
JStr(s) == [t |-> "str", s |-> s]
JBool(b) == [t |-> "bool", b |-> b]
JNull == [t |-> "null"]
JArr(items) == [t |-> "arr", items |-> items]
JObj(fields) == [t |-> "obj", fields |-> fields]

DigitChars == <<"0", "1", "2", "3", "4", "5", "6", "7", "8", "9">>

\* Number.prototype.toString of an integer, as JSON.stringify renders it.
RECURSIVE NumberToString(_)
NumberToString(n) ==
    IF n < 0 THEN <<"-">> \o NumberToString(0 - n)
    ELSE IF n < 10 THEN <<DigitChars[n + 1]>>
    ELSE NumberToString(n \div 10) \o <<DigitChars[(n % 10) + 1]>>

\* The characters of a string with '"' and '\' escaped by a backslash.
RECURSIVE Escape(_)
Escape(s) ==
    IF s = <<>> THEN <<>>
    ELSE (IF Head(s) \in {"\"", "\\"} THEN <<"\\", Head(s)>> ELSE <<Head(s)>>)
             \o Escape(Tail(s))

Quote(s) == <<"\"">> \o Escape(s) \o <<"\"">>

\* The texts of an array joined with ','.
RECURSIVE JoinComma(_)
JoinComma(texts) ==
    IF texts = <<>> THEN <<>>
    ELSE IF Len(texts) = 1 THEN texts[1]
    ELSE texts[1] \o <<",">> \o JoinComma(Tail(texts))

\* JSON.stringify(obj): the JSON text of a value, without white space.
RECURSIVE JSONstringify(_)
JSONstringify(v) ==
    CASE v.t = "num" -> NumberToString(v.n)
      [] v.t = "str" -> Quote(v.s)
      [] v.t = "bool" -> IF v.b THEN <<"t", "r", "u", "e">> ELSE <<"f", "a", "l", "s", "e">>
      [] v.t = "null" -> <<"n", "u", "l", "l">>
      [] v.t = "arr" ->
            <<"[">> \o JoinComma([i \in 1..Len(v.items) |-> JSONstringify(v.items[i])]) \o <<"]">>
      [] v.t = "obj" ->
            <<"{">> \o JoinComma([i \in 1..Len(v.fields) |->
                                    Quote(v.fields[i].k) \o <<":">> \o JSONstringify(v.fields[i].v)])
                   \o <<"}">>

\* A step of the parser: whether it succeeded, the value read, the next position.
Parsed(val, next) == [ok |-> TRUE, val |-> val, next |-> next]
ParseFail == [ok |-> FALSE, val |-> JNull, next |-> 0]

\* The characters s[i..i+Len(word)-1] are the characters of word.
HasWord(s, i, word) ==
    /\ i + Len(word) - 1 <= Len(s)
    /\ \A k \in 1..Len(word) : s[i + k - 1] = word[k]

IsDigit(c) == \E d \in 1..Len(DigitChars) : DigitChars[d] = c
DigitValue(c) == (CHOOSE d \in 1..Len(DigitChars) : DigitChars[d] = c) - 1

\* Digits from position i on, accumulated into n.
RECURSIVE ParseDigits(_, _, _)
ParseDigits(s, i, n) ==
    IF i <= Len(s) /\ IsDigit(s[i])
    THEN ParseDigits(s, i + 1, n * 10 + DigitValue(s[i]))
    ELSE Parsed(n, i)

\* Characters of a string literal from position i (after the opening quote).
RECURSIVE ParseChars(_, _, _)
ParseChars(s, i, acc) ==
    IF i > Len(s) THEN ParseFail
    ELSE IF s[i] = "\"" THEN Parsed(acc, i + 1)
    ELSE IF s[i] = "\\"
         THEN IF i + 1 <= Len(s) /\ s[i + 1] \in {"\"", "\\"}
              THEN ParseChars(s, i + 2, Append(acc, s[i + 1]))
              ELSE ParseFail
    ELSE ParseChars(s, i + 1, Append(acc, s[i]))

RECURSIVE ParseValue(_, _), ParseItems(_, _, _), ParseFields(_, _, _)

\* One JSON value from position i.
ParseValue(s, i) ==
    IF i > Len(s) THEN ParseFail
    ELSE CASE s[i] = "[" ->
                IF i + 1 <= Len(s) /\ s[i + 1] = "]"
                THEN Parsed(JArr(<<>>), i + 2)
                ELSE ParseItems(s, i + 1, <<>>)
           [] s[i] = "{" ->
                IF i + 1 <= Len(s) /\ s[i + 1] = "}"
                THEN Parsed(JObj(<<>>), i + 2)
                ELSE ParseFields(s, i + 1, <<>>)
           [] s[i] = "\"" ->
                LET r == ParseChars(s, i + 1, <<>>) IN
                IF r.ok THEN Parsed(JStr(r.val), r.next) ELSE ParseFail
           [] s[i] = "t" ->
                IF HasWord(s, i, <<"t", "r", "u", "e">>)
                THEN Parsed(JBool(TRUE), i + 4) ELSE ParseFail
           [] s[i] = "f" ->
                IF HasWord(s, i, <<"f", "a", "l", "s", "e">>)
                THEN Parsed(JBool(FALSE), i + 5) ELSE ParseFail
           [] s[i] = "n" ->
                IF HasWord(s, i, <<"n", "u", "l", "l">>)
                THEN Parsed(JNull, i + 4) ELSE ParseFail
           [] s[i] = "-" ->
                IF i + 1 <= Len(s) /\ IsDigit(s[i + 1])
                THEN LET r == ParseDigits(s, i + 1, 0) IN Parsed(JNum(0 - r.val), r.next)
                ELSE ParseFail
           [] IsDigit(s[i]) ->
                LET r == ParseDigits(s, i, 0) IN Parsed(JNum(r.val), r.next)
           [] OTHER -> ParseFail

\* The items of an array from position i, up to the closing bracket.
ParseItems(s, i, acc) ==
    LET r == ParseValue(s, i) IN
    IF ~r.ok \/ r.next > Len(s) THEN ParseFail
    ELSE IF s[r.next] = "," THEN ParseItems(s, r.next + 1, Append(acc, r.val))
    ELSE IF s[r.next] = "]" THEN Parsed(JArr(Append(acc, r.val)), r.next + 1)
    ELSE ParseFail

\* The fields of an object from position i, up to the closing brace.
ParseFields(s, i, acc) ==
    IF i > Len(s) \/ s[i] # "\"" THEN ParseFail
    ELSE LET k == ParseChars(s, i + 1, <<>>) IN
         IF ~k.ok \/ k.next > Len(s) \/ s[k.next] # ":" THEN ParseFail
         ELSE LET r == ParseValue(s, k.next + 1)
                  fields == Append(acc, [k |-> k.val, v |-> r.val])
              IN IF ~r.ok \/ r.next > Len(s) THEN ParseFail
                 ELSE IF s[r.next] = "," THEN ParseFields(s, r.next + 1, fields)
                 ELSE IF s[r.next] = "}" THEN Parsed(JObj(fields), r.next + 1)
                 ELSE ParseFail

\* JSON.parse(json): the value of a JSON text, or a SyntaxError.
JSONparse(s) ==
    LET r == ParseValue(s, 1) IN
    IF r.ok /\ r.next = Len(s) + 1 THEN r.val ELSE [t |-> "SyntaxError"]

\* getJSON(obj)
getJSON(obj) == JSONstringify(obj)

\* Variant of fromJSON: returns a new object created with the prototype, and
\* not the parsed one.
fromJSONCreate(proto, text) ==
    LET obj == JSONparse(text) IN
    IF obj.t = "SyntaxError"
    THEN [thrown |-> "SyntaxError", proto |-> "none", own |-> JNull]
    ELSE [thrown |-> NoError, proto |-> proto, own |-> JObj(<<>>)]

\* fromJSON(proto, json): the parsed object with its prototype replaced; the
\* SyntaxError of JSON.parse propagates.
fromJSON(proto, text) ==
    LET obj == JSONparse(text) IN
    IF obj.t = "SyntaxError"
    THEN [thrown |-> "SyntaxError", proto |-> "none", own |-> JNull]
    ELSE [thrown |-> NoError, proto |-> proto, own |-> obj]

\* Scalars, keys and prototypes the values handed to getJSON are made of.
Scalars == {JNum(0), JNum(0 - 5), JNum(120), JStr(<<>>), JStr(<<"a", "\"", "\\">>),
            JBool(TRUE), JBool(FALSE), JNull}
Keys == {<<"w">>, <<"h", "\"">>}
Protos == {"Rectangle.prototype", "Circle.prototype", "Object.prototype"}

\* Sequences of at most n elements of S.
SeqsUpTo(S, n) == UNION {[1..m -> S] : m \in 0..n}

\* Arrays of scalars and objects whose fields are scalars.
FlatValues ==
    {JArr(items) : items \in SeqsUpTo(Scalars, MaxItems)}
        \cup {JObj(<<>>)}
        \cup {JObj(<<[k |-> k1, v |-> v1]>>) : k1 \in Keys, v1 \in Scalars}
        \cup {JObj(<<[k |-> k1, v |-> v1], [k |-> k2, v |-> v2]>>) :
                  <<k1, k2, v1, v2>> \in {q \in Keys \X Keys \X Scalars \X Scalars : q[1] # q[2]}}

\* The plain structured values handed to getJSON: flat ones, and arrays and
\* objects holding one flat value.
StructuredValues ==
    FlatValues
        \cup {JArr(<<v1>>) : v1 \in FlatValues}
        \cup {JObj(<<[k |-> k1, v |-> v1]>>) : k1 \in Keys, v1 \in FlatValues}

NoValue == [given |-> FALSE, v |-> JNull]
NotRevived == [done |-> FALSE, thrown |-> NoError, proto |-> "none", own |-> JNull]

\* No Rectangle constructed, getArea not called.
NoRectangle == [made |-> FALSE, w |-> 0, h |-> 0, obj |-> Rectangle(0, 0)]
NoArea == [called |-> FALSE, value |-> 0, before |-> Rectangle(0, 0)]

----------------------------------------------------------------------------
\* cssSelectorBuilder.weight
weight == <<"element", "id ", "class", "attribute", "pseudo-class", "pseudo-element">>

\* The two messages passed to error().
UniqueMsg == "Element, id and pseudo-element should not occur more then one time inside the selector"
OrderMsg == "Selector parts should be arranged in the following order: element, id, class, attribute, pseudo-class, pseudo-element"

\* Array.prototype.join(''): the concatenation of the strings of an array.
RECURSIVE join(_)
join(arr) == IF arr = <<>> THEN <<>> ELSE Head(arr) \o join(Tail(arr))

\* Array.prototype.indexOf on weight (0-based, -1 when absent).
indexOf(el) ==
    IF \E i \in 1..Len(weight) : weight[i] = el
    THEN (CHOOSE i \in 1..Len(weight) : weight[i] = el) - 1
    ELSE -1

\* The builder object as a record of its mutable fields.
this == [idCheck |-> idCheck, pseudoElementCheck |-> pseudoElementCheck,
         order |-> order, combo |-> combo, build |-> build]

\* The reference the fragment methods and combine return (return this): the
\* one object the constant cssSelectorBuilder is bound to.
cssSelectorBuilder == <<"cssSelectorBuilder">>

\* A method's outcome: the builder afterwards, the Error thrown, the value returned.
Returns(st, ret) == [st |-> st, thrown |-> NoError, ret |-> ret]

\* clear(): every field back to its initial value.
clear(st) ==
    [idCheck |-> FALSE, pseudoElementCheck |-> FALSE,
     order |-> <<>>, combo |-> <<>>, build |-> <<>>]

\* Variant of error: throws without clearing the builder.
errorNoClear(st, msg) == [st |-> st, thrown |-> msg, ret |-> <<>>]

\* error(msg): clear, then throw.
error(st, msg) == [st |-> clear(st), thrown |-> msg, ret |-> <<>>]

\* Variant of inOrder: checks the rank but does not record it.
inOrderNoPush(st, el) ==
    LET pos == indexOf(el) IN
    IF Len(st.order) > 0 /\ st.order[Len(st.order)] > pos
    THEN error(st, OrderMsg)
    ELSE Returns(st, <<>>)

\* Variant of inOrder: compares with the first recorded rank, this.order[0].
inOrderFirst(st, el) ==
    LET pos == indexOf(el) IN
    IF Len(st.order) > 0 /\ st.order[1] > pos
    THEN error(st, OrderMsg)
    ELSE Returns([st EXCEPT !.order = Append(@, pos)], <<>>)

\* Variant of inOrder: throws on an equal rank too (>= for >).
inOrderStrict(st, el) ==
    LET pos == indexOf(el) IN
    IF Len(st.order) > 0 /\ st.order[Len(st.order)] >= pos
    THEN error(st, OrderMsg)
    ELSE Returns([st EXCEPT !.order = Append(@, pos)], <<>>)

\* inOrder(el): throws when the last recorded rank is greater than el's rank
\* (undefined > pos is false on an empty order), otherwise records the rank.
inOrder(st, el) ==
    LET pos == indexOf(el) IN
    IF Len(st.order) > 0 /\ st.order[Len(st.order)] > pos
    THEN error(st, OrderMsg)
    ELSE Returns([st EXCEPT !.order = Append(@, pos)], <<>>)

\* A fragment method's tail: this.inOrder(kind); this.build.push(text); return this.
pushInOrder(st, el, text) ==
    LET r == inOrder(st, el) IN
    IF r.thrown # NoError THEN r
    ELSE Returns([r.st EXCEPT !.build = Append(@, text)], cssSelectorBuilder)

\* Variant of stringify: returns the string without clearing the builder.
stringifyNoClear(st) == [st |-> st, thrown |-> NoError, ret |-> join(st.build)]

\* stringify()
stringify(st) == [st |-> clear(st), thrown |-> NoError, ret |-> join(st.build)]

\* Variant of element: archives a build of one entry too instead of throwing.
elementArchiveOne(st, value) ==
    LET s1 == IF Len(st.build) > 0
              THEN [st EXCEPT !.combo = Append(@, join(st.build)),
                              !.build = <<>>,
                              !.idCheck = FALSE,
                              !.pseudoElementCheck = FALSE,
                              !.order = <<>>]
              ELSE st
    IN pushInOrder(s1, weight[1], value)

\* Variant of element: archives the previous selector without resetting order.
elementKeepOrder(st, value) ==
    IF Len(st.build) > 0 /\ Len(st.build) < 2
    THEN error(st, UniqueMsg)
    ELSE LET s1 == IF Len(st.build) > 0
                   THEN [st EXCEPT !.combo = Append(@, join(st.build)),
                                   !.build = <<>>,
                                   !.idCheck = FALSE,
                                   !.pseudoElementCheck = FALSE]
                   ELSE st
         IN pushInOrder(s1, weight[1], value)

\* Variant of element: archives the previous selector without resetting the
\* idCheck and pseudoElementCheck flags.
elementKeepFlags(st, value) ==
    IF Len(st.build) > 0 /\ Len(st.build) < 2
    THEN error(st, UniqueMsg)
    ELSE LET s1 == IF Len(st.build) > 0
                   THEN [st EXCEPT !.combo = Append(@, join(st.build)),
                                   !.build = <<>>,
                                   !.order = <<>>]
                   ELSE st
         IN pushInOrder(s1, weight[1], value)

\* element(value)
element(st, value) ==
    IF Len(st.build) > 0 /\ Len(st.build) < 2
    THEN error(st, UniqueMsg)
    ELSE LET s1 == IF Len(st.build) > 0
                   THEN [st EXCEPT !.combo = Append(@, join(st.build)),
                                   !.build = <<>>,
                                   !.idCheck = FALSE,
                                   !.pseudoElementCheck = FALSE,
                                   !.order = <<>>]
                   ELSE st
         IN pushInOrder(s1, weight[1], value)

\* Variant of id: no idCheck test.
idNoCheck(st, value) ==
    pushInOrder([st EXCEPT !.idCheck = TRUE], weight[2], <<"#">> \o value)

\* id(value)
id(st, value) ==
    IF st.idCheck
    THEN error(st, UniqueMsg)
    ELSE pushInOrder([st EXCEPT !.idCheck = TRUE], weight[2], <<"#">> \o value)

\* Variant of class: builds on a new, empty builder instead of this.
classFresh(st, value) == pushInOrder(clear(st), weight[3], <<".">> \o value)

\* class(value)
class(st, value) == pushInOrder(st, weight[3], <<".">> \o value)

\* attr(value)
attr(st, value) == pushInOrder(st, weight[4], <<"[">> \o value \o <<"]">>)

\* pseudoClass(value)
pseudoClass(st, value) == pushInOrder(st, weight[5], <<":">> \o value)

\* Variant of pseudoElement: no pseudoElementCheck test.
pseudoElementNoCheck(st, value) ==
    pushInOrder([st EXCEPT !.pseudoElementCheck = TRUE], weight[6], <<":", ":">> \o value)

\* pseudoElement(value)
pseudoElement(st, value) ==
    IF st.pseudoElementCheck
    THEN error(st, UniqueMsg)
    ELSE pushInOrder([st EXCEPT !.pseudoElementCheck = TRUE], weight[6],
                     <<":", ":">> \o value)

\* Variant of combine: takes the oldest pending segment (shift) as the left text.
combineShift(st, combinator) ==
    LET n == Len(st.combo)
        resultLeft == IF n = 0 THEN <<"undefined">> ELSE st.combo[1]
        popped == IF n = 0 THEN <<>> ELSE Tail(st.combo)
        resultRight == join(st.build)
    IN Returns([st EXCEPT !.combo = popped,
                          !.build = <<resultLeft \o <<" ", combinator, " ">> \o resultRight>>],
               cssSelectorBuilder)

\* combine(selector1, combinator, selector2) with selector1 = selector2 = this:
\* pops the last pending segment (undefined on an empty combo) as the left text
\* and joins the current build as the right text.
combine(st, combinator) ==
    LET n == Len(st.combo)
        resultLeft == IF n = 0 THEN <<"undefined">> ELSE st.combo[n]
        popped == IF n = 0 THEN <<>> ELSE SubSeq(st.combo, 1, n - 1)
        resultRight == join(st.build)
    IN Returns([st EXCEPT !.combo = popped,
                          !.build = <<resultLeft \o <<" ", combinator, " ">> \o resultRight>>],
               cssSelectorBuilder)

----------------------------------------------------------------------------
\* The text a fragment method pushes for its argument.
TextOf(name, value) ==
    CASE name = "element" -> value
      [] name = "id" -> <<"#">> \o value
      [] name = "class" -> <<".">> \o value
      [] name = "attr" -> <<"[">> \o value \o <<"]">>
      [] name = "pseudoClass" -> <<":">> \o value
      [] name = "pseudoElement" -> <<":", ":">> \o value
      [] OTHER -> <<value>>

\* One call on the facade: r is the method's outcome on the current state.
Call(name, arg, r) ==
    /\ idCheck' = r.st.idCheck
    /\ pseudoElementCheck' = r.st.pseudoElementCheck
    /\ order' = r.st.order
    /\ combo' = r.st.combo
    /\ build' = r.st.build
    /\ op' = name
    /\ thrown' = r.thrown
    /\ result' = r.ret
    /\ pre' = [st |-> this, trace |-> trace, op |-> op, thrown |-> thrown, result |-> result]
    /\ trace' = IF r.thrown # NoError \/ name = "stringify"
                THEN <<>>
                ELSE Append(trace, [op |-> name, text |-> TextOf(name, arg)])
    /\ UNCHANGED objectVars

InitBuilder ==
    /\ idCheck = FALSE
    /\ pseudoElementCheck = FALSE
    /\ order = <<>>
    /\ combo = <<>>
    /\ build = <<>>
    /\ op = "init"
    /\ thrown = NoError
    /\ result = <<>>
    /\ pre = [st |-> clear(this), trace |-> <<>>, op |-> "init", thrown |-> NoError, result |-> <<>>]
    /\ trace = <<>>

Init ==
    /\ InitBuilder
    /\ rect = NoRectangle
    /\ area = NoArea
    /\ jsonValue = NoValue
    /\ json = <<>>
    /\ revived = NotRevived

Element == \E v \in Values : Len(trace) < MaxCalls /\ Call("element", v, element(this, v))
Id == \E v \in Values : Len(trace) < MaxCalls /\ Call("id", v, id(this, v))
Class == \E v \in Values : Len(trace) < MaxCalls /\ Call("class", v, class(this, v))
Attr == \E v \in Values : Len(trace) < MaxCalls /\ Call("attr", v, attr(this, v))
PseudoClass == \E v \in Values : Len(trace) < MaxCalls /\ Call("pseudoClass", v, pseudoClass(this, v))
PseudoElement == \E v \in Values : Len(trace) < MaxCalls /\ Call("pseudoElement", v, pseudoElement(this, v))
Combine == \E c \in Combinators : Len(trace) < MaxCalls /\ Call("combine", c, combine(this, c))
Stringify == Call("stringify", "", stringify(this))

Next ==
    \/ Element
    \/ Id
    \/ Class
    \/ Attr
    \/ PseudoClass
    \/ PseudoElement
    \/ Combine
    \/ Stringify

Spec == Init /\ [][Next]_vars

----------------------------------------------------------------------------
\* A caller evaluating a right-nested combination on the facade, as in the
\* example of the builder's documentation:
\*   combine(s1, c1, combine(s2, c2, ... combine(s(n-1), c(n-1), sn))).stringify()
\* JavaScript evaluates the arguments left to right before each call, so the
\* fragment calls of s1, s2, ..., sn run first, then the combine calls from the
\* innermost out, then stringify.  The caller's position is read from the log.

\* Calls of one method logged in t.
CountOf(t, name) == Cardinality({i \in 1..Len(t) : t[i].op = name})

\* Fragments logged for the selector being built (no combine logged yet).
CurrentLength(t) ==
    LET starts == {k \in 1..Len(t) : t[k].op = "element"} IN
    IF starts = {} THEN Len(t)
    ELSE Len(t) - (CHOOSE k \in starts : \A m \in starts : m <= k) + 1

\* The value the caller gives to the fragments that follow an element.
NestedValue == <<"a">>

NestedElement ==
    \E v \in Values :
        /\ CountOf(trace, "combine") = 0
        /\ \/ trace = <<>>
           \/ CurrentLength(trace) >= 2 /\ CountOf(trace, "element") < MaxSelectors
        /\ Call("element", v, element(this, v))

NestedId ==
    /\ trace # <<>> /\ CountOf(trace, "combine") = 0
    /\ CurrentLength(trace) < MaxFragments
    /\ Call("id", NestedValue, id(this, NestedValue))

NestedClass ==
    /\ trace # <<>> /\ CountOf(trace, "combine") = 0
    /\ CurrentLength(trace) < MaxFragments
    /\ Call("class", NestedValue, class(this, NestedValue))

NestedCombine ==
    \E c \in Combinators :
        /\ CountOf(trace, "element") >= 2 /\ CurrentLength(trace) >= 2
        /\ CountOf(trace, "combine") < CountOf(trace, "element") - 1
        /\ Call("combine", c, combine(this, c))

NestedStringify ==
    /\ CountOf(trace, "combine") >= 1
    /\ CountOf(trace, "combine") = CountOf(trace, "element") - 1
    /\ Call("stringify", "", stringify(this))

NextNested ==
    \/ NestedElement
    \/ NestedId
    \/ NestedClass
    \/ NestedCombine
    \/ NestedStringify

SpecNested == Init /\ [][NextNested]_vars

----------------------------------------------------------------------------
\* A caller that builds simple selectors of two fragments (element, then id or
\* class), calls combine once at any point, on an empty builder included, and
\* chains further calls on the object combine returned.

\* Calls logged after the combine call of t.
ChainedCount(t) ==
    Len(t) - (CHOOSE k \in 1..Len(t) : t[k].op = "combine")

\* The caller may make one more call on the object combine returned.
MayChain(t) == CountOf(t, "combine") = 1 /\ ChainedCount(t) < MaxChained

ChainedElement ==
    \E v \in Values :
        /\ \/ /\ CountOf(trace, "combine") = 0
              /\ trace = <<>> \/ CurrentLength(trace) = 2
              /\ CountOf(trace, "element") < MaxSelectors
           \/ MayChain(trace)
        /\ Call("element", v, element(this, v))

ChainedId ==
    /\ \/ CountOf(trace, "combine") = 0 /\ CurrentLength(trace) = 1
       \/ MayChain(trace)
    /\ Call("id", NestedValue, id(this, NestedValue))

ChainedClass ==
    /\ \/ CountOf(trace, "combine") = 0 /\ CurrentLength(trace) = 1
       \/ MayChain(trace)
    /\ Call("class", NestedValue, class(this, NestedValue))

ChainedCombine ==
    \E c \in Combinators :
        /\ CountOf(trace, "combine") = 0
        /\ Call("combine", c, combine(this, c))

ChainedStringify ==
    /\ CountOf(trace, "combine") = 1
    /\ Call("stringify", "", stringify(this))

NextChained ==
    \/ ChainedElement
    \/ ChainedId
    \/ ChainedClass
    \/ ChainedCombine
    \/ ChainedStringify

SpecChained == Init /\ [][NextChained]_vars

----------------------------------------------------------------------------
\* The Rectangle constructor and getArea on bounded integer dimensions.

NewRectangle ==
    \E w \in Dims, h \in Dims :
        /\ rect' = [made |-> TRUE, w |-> w, h |-> h, obj |-> Rectangle(w, h)]
        /\ area' = NoArea
        /\ UNCHANGED <<builderVars, jsonValue, json, revived>>

GetArea ==
    /\ rect.made
    /\ LET r == getArea(rect.obj) IN
        /\ rect' = [rect EXCEPT !.obj = r.obj]
        /\ area' = [called |-> TRUE, value |-> r.ret, before |-> rect.obj]
    /\ UNCHANGED <<builderVars, jsonValue, json, revived>>

NextRectangle ==
    \/ NewRectangle
    \/ GetArea

SpecRectangle == Init /\ [][NextRectangle]_vars

----------------------------------------------------------------------------
\* getJSON on a structured value drawn from a bounded set, then fromJSON on the
\* string it returned.

InitJSON ==
    /\ InitBuilder
    /\ rect = NoRectangle
    /\ area = NoArea
    /\ jsonValue \in {[given |-> TRUE, v |-> v] : v \in StructuredValues}
    /\ json = <<>>
    /\ revived = NotRevived

GetJSON ==
    /\ jsonValue.given /\ json = <<>>
    /\ json' = getJSON(jsonValue.v)
    /\ UNCHANGED <<builderVars, rect, area, jsonValue, revived>>

FromJSON ==
    \E proto \in Protos :
        /\ json # <<>> /\ ~revived.done
        /\ LET r == fromJSON(proto, json) IN
           revived' = [done |-> TRUE, thrown |-> r.thrown, proto |-> r.proto, own |-> r.own]
        /\ UNCHANGED <<builderVars, rect, area, jsonValue, json>>

NextJSON ==
    \/ GetJSON
    \/ FromJSON

SpecJSON == InitJSON /\ [][NextJSON]_vars

----------------------------------------------------------------------------
\* Vocabulary of the properties.

FragmentOps == {"element", "id", "class", "attr", "pseudoClass", "pseudoElement"}

\* Rank of a fragment kind: element 0 < id 1 < class 2 < attribute 3 <
\* pseudo-class 4 < pseudo-element 5.
RankOf(name) ==
    CASE name = "element" -> 0
      [] name = "id" -> 1
      [] name = "class" -> 2
      [] name = "attr" -> 3
      [] name = "pseudoClass" -> 4
      [] name = "pseudoElement" -> 5
      [] OTHER -> -1

\* Concatenation of the fragment texts logged at positions i..j of a call log.
Texts(t, i, j) == join([k \in 1..(j - i + 1) |-> t[i + k - 1].text])

\* Ranks of the fragments of the current simple selector of a call log: the
\* fragments called since the selector was started by the last element call, or
\* since the builder was empty (combine leaves the right-most simple selector
\* current).
SelectorStart(t) ==
    LET starts == {k \in 1..Len(t) : t[k].op = "element"} IN
    IF starts = {} THEN 1 ELSE CHOOSE k \in starts : \A m \in starts : m <= k

CurRanks(t) ==
    {RankOf(t[i].op) : i \in {k \in SelectorStart(t)..Len(t) : t[k].op \in FragmentOps}}

\* Positions i..j of a call log are one simple selector built as element(...)
\* followed by zero or more further fragments.
IsSimple(t, i, j) ==
    /\ 1 <= i /\ i <= j /\ j <= Len(t)
    /\ t[i].op = "element"
    /\ \A k \in (i + 1)..j : t[k].op \in FragmentOps \ {"element"}

\* Every field of the builder has its initial value.
IsEmpty == this = clear(this)
----------------------------------------------------------------------------
\* C1: for every sequence of fragment calls applied to an empty builder in
\* which no call raises, the following stringify() returns the concatenation of
\* the texts of all the fragments of the sequence, in call order.
C1_StringifyJoinsAllCalls ==
    (op = "stringify" /\ \A i \in 1..Len(pre.trace) : pre.trace[i].op \in FragmentOps)
        => result = Texts(pre.trace, 1, Len(pre.trace))

\* C2: combine(left, c, right).stringify() with left = element(...) followed by
\* zero or more fragments and right starting with element(...) evaluates to
\* <left> + ' ' + c + ' ' + <right>: the right selector's element call made
\* after the left selector was built does not throw, and the stringify that
\* follows the combine returns the compound text.
C2_CombineTwoSelectors ==
    /\ (op = "element" /\ IsSimple(pre.trace, 1, Len(pre.trace))) => thrown = NoError
    /\ LET t == pre.trace
           n == Len(t)
       IN (op = "stringify" /\ n >= 3 /\ t[n].op = "combine") =>
            \A k \in 2..(n - 1) :
                (IsSimple(t, 1, k - 1) /\ IsSimple(t, k, n - 1)) =>
                    result = Texts(t, 1, k - 1) \o <<" ">> \o t[n].text \o <<" ">>
                                 \o Texts(t, k, n - 1)

\* C3: a call of id, class, attr, pseudoClass or pseudoElement made when the
\* current simple selector already contains a fragment of strictly higher rank
\* throws and appends nothing.
C3_OutOfOrderThrows ==
    (op \in FragmentOps \ {"element"} /\ \E r \in CurRanks(pre.trace) : r > RankOf(op))
        => (thrown # NoError /\ build = <<>>)

\* class('x').id('y'): the id call throws the ordering error.
C3_Witness ==
    /\ op = "id"
    /\ Len(pre.trace) = 1 /\ pre.trace[1].op = "class"
    /\ thrown = OrderMsg
    /\ build = <<>>

\* C4: element(name) called when the current simple selector already contains
\* an element fragment always throws, whatever was appended since.
C4_SecondElementThrows ==
    (op = "element" /\ 0 \in CurRanks(pre.trace)) => thrown # NoError

\* C5: element(name) called when the current simple selector already contains
\* a fragment of higher rank throws the ordering error, for any length.
C5_ElementAfterHigherRankThrows ==
    (op = "element" /\ \E r \in CurRanks(pre.trace) : r > 0) => thrown = OrderMsg

\* C6: id(value) called when the current simple selector already has an id
\* fragment throws before anything is appended and leaves the builder empty.
C6_SecondIdThrows ==
    (op = "id" /\ 1 \in CurRanks(pre.trace)) => (thrown # NoError /\ IsEmpty)

\* id('x').id('y'): the second call throws on a builder that held fragments.
C6_Witness ==
    /\ op = "id"
    /\ pre.op = "id" /\ pre.thrown = NoError
    /\ pre.st.build # <<>> /\ pre.st.idCheck
    /\ thrown = UniqueMsg
    /\ IsEmpty

\* C7: pseudoElement(value) throws and appends nothing when the current simple
\* selector already has a pseudo-element fragment, and never throws when it
\* has none.
C7_PseudoElementOnce ==
    op = "pseudoElement" =>
        IF 5 \in CurRanks(pre.trace)
        THEN thrown # NoError /\ build = <<>>
        ELSE thrown = NoError

\* pseudoElement('x').pseudoElement('y'): the second call throws.
C7_Witness ==
    /\ op = "pseudoElement"
    /\ pre.op = "pseudoElement" /\ pre.thrown = NoError
    /\ 5 \in CurRanks(pre.trace)
    /\ thrown = UniqueMsg
    /\ build = <<>>

\* C8: whenever a call throws, the builder is empty right after (build, order,
\* combo empty, both flags false), so a stringify() that follows returns ''.
C8_ThrowClearsBuilder ==
    /\ thrown # NoError => IsEmpty
    /\ (op = "stringify" /\ pre.thrown # NoError) => result = <<>>

\* A call threw on a builder that held a fragment, a rank and a pending segment.
C8_Witness ==
    /\ thrown # NoError
    /\ pre.st.build # <<>> /\ pre.st.combo # <<>> /\ pre.st.order # <<>>
    /\ IsEmpty

\* C9: stringify() is a destructive read: the builder is empty after it, it
\* returns '' on an empty builder, and the second of two consecutive calls
\* returns ''.
C9_StringifyDestructive ==
    op = "stringify" =>
        /\ IsEmpty
        /\ pre.st.build = <<>> => result = <<>>
        /\ pre.op = "stringify" => result = <<>>

\* Two consecutive stringify calls: the first returned a non-empty string.
C9_Witness ==
    /\ op = "stringify" /\ pre.op = "stringify"
    /\ pre.result # <<>>
    /\ result = <<>>
    /\ IsEmpty

\* C10: class, attr and pseudoClass throw only the ordering error, and throw
\* exactly when the highest rank of the current simple selector is strictly
\* greater than their own rank; a repeat of the same kind is accepted.
C10_RepeatableThrowIffOutOfOrder ==
    op \in {"class", "attr", "pseudoClass"} =>
        /\ thrown \in {NoError, OrderMsg}
        /\ thrown # NoError <=> \E r \in CurRanks(pre.trace) : r > RankOf(op)
        /\ (pre.op = op /\ pre.thrown = NoError) => thrown = NoError

\* class(...).class(...).class(...): three consecutive repeats accepted.
C10_Witness ==
    /\ op = "class" /\ pre.op = "class"
    /\ thrown = NoError
    /\ Len(trace) >= 3
    /\ \A i \in 1..Len(trace) : trace[i].op = "class"
    /\ Len(build) = Len(trace)

----------------------------------------------------------------------------
\* Rank of a fragment text, read from its prefix: '#' id, '.' class, '['
\* attribute, '::' pseudo-element, ':' pseudo-class, otherwise element.
RankOfText(text) ==
    CASE text[1] = "#" -> 1
      [] text[1] = "." -> 2
      [] text[1] = "[" -> 3
      [] text[1] = ":" /\ Len(text) > 1 /\ text[2] = ":" -> 5
      [] text[1] = ":" -> 4
      [] OTHER -> 0

\* No combine call was made since the builder was last empty.
NoCombine == \A i \in 1..Len(trace) : trace[i].op # "combine"

\* Positions of build holding a fragment of rank r.
BuildAt(r) == {i \in 1..Len(build) : RankOfText(build[i]) = r}

\* C11: in every state reached without combine, build holds at most one
\* element, one id and one pseudo-element fragment, and idCheck /
\* pseudoElementCheck are true exactly when build holds an id / pseudo-element
\* fragment.
C11_ExclusiveFragmentsOnce ==
    NoCombine =>
        /\ Cardinality(BuildAt(0)) <= 1
        /\ Cardinality(BuildAt(1)) <= 1
        /\ Cardinality(BuildAt(5)) <= 1
        /\ idCheck <=> BuildAt(1) # {}
        /\ pseudoElementCheck <=> BuildAt(5) # {}

\* A second simple selector, started by element after an archived one that had
\* an id, holds an element and a pseudo-element and no id.
C11_Witness ==
    /\ NoCombine
    /\ combo # <<>>
    /\ Cardinality(BuildAt(0)) = 1 /\ Cardinality(BuildAt(5)) = 1
    /\ BuildAt(1) = {}
    /\ ~idCheck /\ pseudoElementCheck
    /\ \E i \in 1..Len(trace) : trace[i].op = "id"

----------------------------------------------------------------------------
\* C12: a Rectangle constructed with width w and height h has fields width = w
\* and height = h, getArea() returns w * h, and getArea leaves the fields as
\* they were.
C12_RectangleArea ==
    /\ rect.made => (rect.obj.width = rect.w /\ rect.obj.height = rect.h)
    /\ area.called =>
        /\ area.value = rect.w * rect.h
        /\ rect.obj = area.before

\* getArea() was called on new Rectangle(-3, 2) and returned -6.
C12_Witness ==
    /\ rect.made /\ rect.w = 0 - 3 /\ rect.h = 2
    /\ area.called /\ area.value = 0 - 6
    /\ rect.obj = Rectangle(0 - 3, 2)

----------------------------------------------------------------------------
----------------------------------------------------------------------------
\* C14: element(value) on a non-empty builder behaves by fragment count: with
\* exactly one entry in build it throws the duplicate-fragment error and
\* clears the state; with two or more it throws nothing, pushes the
\* concatenation of build onto combo, resets build, order and both flags, and
\* starts a new simple selector with build = [value] and order = [0].
C14_ElementByFragmentCount ==
    (op = "element" /\ Len(pre.st.build) > 0) =>
        IF Len(pre.st.build) = 1
        THEN thrown = UniqueMsg /\ IsEmpty
        ELSE /\ thrown = NoError
             /\ combo = Append(pre.st.combo, join(pre.st.build))
             /\ build = <<trace[Len(trace)].text>>
             /\ order = <<0>>
             /\ ~idCheck /\ ~pseudoElementCheck

\* element called on a builder holding an id and a pseudo-element fragment,
\* both flags set: the two fragments are archived.
C14_Witness ==
    /\ op = "element"
    /\ Len(pre.st.build) = 2 /\ pre.st.idCheck /\ pre.st.pseudoElementCheck
    /\ thrown = NoError
    /\ combo = <<join(pre.st.build)>>
    /\ Len(build) = 1 /\ order = <<0>>

----------------------------------------------------------------------------
\* Shape of a call log that evaluates a right-nested combination of n >= 2
\* simple selectors: the fragments of s1..sn, each selector starting with
\* element and having at least two fragments, then n - 1 combine calls.
ElementAt(t) == {k \in 1..Len(t) : t[k].op = "element"}
FragmentCount(t) == Cardinality({k \in 1..Len(t) : t[k].op \in FragmentOps})

\* Position of the j-th element call of t.
StartOf(t, j) == CHOOSE k \in ElementAt(t) : Cardinality({m \in ElementAt(t) : m < k}) = j - 1

\* Last fragment position of the j-th selector of t.
EndOf(t, j) ==
    IF j = Cardinality(ElementAt(t)) THEN FragmentCount(t) ELSE StartOf(t, j + 1) - 1

IsRightNested(t) ==
    LET n == Cardinality(ElementAt(t)) IN
    /\ n >= 2
    /\ t[1].op = "element"
    /\ Len(t) = FragmentCount(t) + n - 1
    /\ \A k \in 1..FragmentCount(t) : t[k].op \in FragmentOps
    /\ \A k \in (FragmentCount(t) + 1)..Len(t) : t[k].op = "combine"
    /\ \A j \in 1..n : IsSimple(t, StartOf(t, j), EndOf(t, j)) /\ EndOf(t, j) > StartOf(t, j)

\* The combinator written between sj and s(j+1): the combine calls run from
\* the innermost out, so it is the (n - j)-th combine call of the log.
CombinatorOf(t, j) == t[FragmentCount(t) + Cardinality(ElementAt(t)) - j].text

\* 'sj cj s(j+1) ... c(n-1) sn'
RECURSIVE Flattened(_, _)
Flattened(t, j) ==
    IF j = Cardinality(ElementAt(t))
    THEN Texts(t, StartOf(t, j), EndOf(t, j))
    ELSE Texts(t, StartOf(t, j), EndOf(t, j)) \o <<" ">> \o CombinatorOf(t, j) \o <<" ">>
             \o Flattened(t, j + 1)

\* C15: a right-nested combination of n >= 2 simple selectors, each starting
\* with element and having at least two fragments, stringifies to
\* 's1 c1 s2 c2 ... c(n-1) sn' with one space on each side of every
\* combinator, and combo is empty after the outermost combine.
C15_RightNestedFlattens ==
    (op = "stringify" /\ IsRightNested(pre.trace)) =>
        /\ result = Flattened(pre.trace, 1)
        /\ pre.st.combo = <<>>

\* combine(a#a, '+', combine(b.a.a, ' ', a#a.a)).stringify()
C15_Witness ==
    /\ op = "stringify" /\ IsRightNested(pre.trace)
    /\ Cardinality(ElementAt(pre.trace)) = 3
    /\ result = <<"a", "#", "a", " ", "+", " ", "b", ".", "a", ".", "a", " ", " ", " ",
                  "a", "#", "a", ".", "a">>

----------------------------------------------------------------------------
----------------------------------------------------------------------------
\* C17: in every state reached without combine, the fragments of build are in
\* non-decreasing rank order, order is as long as build with order[i] the rank
\* of build[i], and the last entry of order is the highest rank of the current
\* simple selector.
C17_OrderMirrorsBuild ==
    NoCombine =>
        /\ Len(order) = Len(build)
        /\ \A i \in 1..Len(build) : order[i] = RankOfText(build[i])
        /\ \A i \in 1..Len(build) : \A j \in i..Len(build) :
                RankOfText(build[i]) <= RankOfText(build[j])
        /\ \A r \in CurRanks(trace) : order # <<>> /\ r <= order[Len(order)]
        /\ order # <<>> => order[Len(order)] \in CurRanks(trace)

\* element, class, class, pseudoElement: build and order hold four entries.
C17_Witness ==
    /\ NoCombine
    /\ order = <<0, 2, 2, 5>>
    /\ Len(build) = 4
    /\ \A i \in 1..Len(build) : order[i] = RankOfText(build[i])

----------------------------------------------------------------------------
\* The combinator of the combine call that was the last call.
LastCombinator == trace[Len(trace)].text

\* The frame of combine apart from combo: build becomes the one compound
\* string made of the given left text, and order and both flags are unchanged.
CombineFrame(left) ==
    /\ thrown = NoError
    /\ build = <<left \o <<" ">> \o LastCombinator \o <<" ">> \o join(pre.st.build)>>
    /\ order = pre.st.order
    /\ idCheck = pre.st.idCheck
    /\ pseudoElementCheck = pre.st.pseudoElementCheck

\* A call chained right after combine is checked against the flags and the
\* rank history the right-most simple selector left.
ChainedChecksInForce ==
    (pre.op = "combine" /\ op \in {"id", "class"}) =>
        (thrown # NoError <=>
            \/ op = "id" /\ pre.st.idCheck
            \/ pre.st.order # <<>> /\ pre.st.order[Len(pre.st.order)] > RankOf(op))

\* C18 as stated: combine pops exactly one entry of combo, the most recent,
\* as the left text, replaces build by the compound string and leaves order,
\* both flags and the remaining entries unchanged; the flags and rank history
\* stay in force for the calls chained after it.
C18_CombinePopsOne ==
    /\ op = "combine" =>
        /\ Len(combo) = Len(pre.st.combo) - 1
        /\ combo = SubSeq(pre.st.combo, 1, Len(pre.st.combo) - 1)
        /\ CombineFrame(pre.st.combo[Len(pre.st.combo)])
    /\ ChainedChecksInForce

\* A combine call is in t and no element call was logged after it.
CombineSinceElement(t) ==
    \E k \in 1..Len(t) :
        /\ t[k].op = "combine"
        /\ \A j \in (k + 1)..Len(t) : t[j].op # "element"

====
